---- MODULE Spec2Model ----
(***************************************************************************)
(* The position-lifecycle engine of the trading bot:                       *)
(* AdvancedTradingService (executeStrategy, executeTrade,                  *)
(* setTakeProfitStopLoss, monitorPosition, closeAllPositions,              *)
(* updateAccountBalance, getCurrentBalance) driven by the cron callbacks   *)
(* of AdvancedTradingBot.startScheduledTrading, over the exchange calls of *)
(* BinanceFuturesService.                                                  *)
(*                                                                         *)
(* Every `await` of the code is a point where the other callbacks may run: *)
(* an invocation's pc names the exchange call it is waiting for, and one   *)
(* action is the arrival of that call's result together with all the code  *)
(* that runs up to the next await.  The exchange acts on a call at the     *)
(* moment its result arrives.  Quantities are in thousandths of a coin     *)
(* (the venue increment 0.001), prices and balances in whole USDT.         *)
(*                                                                         *)
(* Spec is that engine; SpecLive adds the fairness of the scheduler and of *)
(* the venue's answers; SpecRestart starts it over a venue that holds a    *)
(* position; SpecCalc evaluates the pure functions on grids of inputs;     *)
(* SpecTrade is TradingService.executeTradeSignal with the notification    *)
(* sink (TelegramService); SpecConcurrent runs two such calls together,    *)
(* one per symbol; SpecOverlap starts the engine with a monitor tick under *)
(* way when the next daily trigger comes.                                  *)
(***************************************************************************)
EXTENDS Integers, Sequences, FiniteSets, TLC

\* Number of executeStrategy invocations (cron triggers) in a behaviour.
MaxCycles == 2
\* Number of monitorPosition invocations (monitor ticks) in a behaviour.
MaxTicks == 2

Cycles == 1..MaxCycles
Ticks == 1..MaxTicks

\* config.takeProfitPoints / config.stopLossPoints defaults.
TakeProfitPoints == 500
StopLossPoints == 500
\* config.leverage default, set on the exchange by BinanceFuturesService.initialize.
ConfigLeverage == 10
\* determineLeverage's default tiers.
BaseLeverage == 5
HighLeverage == 10
\* generateTradingSignal asks for, and requires, this many candles.
CandleLimit == 200
\* Values config.tradeAmount can take (TRADE_AMOUNT_USDT; the default is 100).
TradeAmounts == {0, 100}

Abs(x) == IF x < 0 THEN -x ELSE x
Min(a, b) == IF a < b THEN a ELSE b
Max(a, b) == IF a > b THEN a ELSE b
Sign(x) == IF x > 0 THEN 1 ELSE IF x < 0 THEN -1 ELSE 0

----------------------------------------------------------------------------
(* Signal decision: technicalAnalysisService.ts *)

NeutralData == [ema7 |-> 0, ema100 |-> 0, ema200 |-> 0, rsi |-> 50, currentPrice |-> 0]

\* The indicator snapshots calculateIndicators may hand to the decision.
Snapshots ==
  { [ema7 |-> 41980, ema100 |-> 41500, ema200 |-> 41000, rsi |-> 34, currentPrice |-> 42000],
    [ema7 |-> 41020, ema100 |-> 41500, ema200 |-> 42000, rsi |-> 55, currentPrice |-> 41000],
    [ema7 |-> 41000, ema100 |-> 41500, ema200 |-> 42000, rsi |-> 45, currentPrice |-> 42000] }

\* Math.abs((currentPrice - ema7) / ema7) * 100 > 0.3, in integers.  A zero
\* ema7 gives Infinity (> 0.3) unless the numerator is zero too (NaN, and
\* every comparison with NaN is false).
PriceTooFar(d) ==
  IF d.ema7 = 0
    THEN d.currentPrice # 0
    ELSE 1000 * Abs(d.currentPrice - d.ema7) > 3 * Abs(d.ema7)

isLongSignal(d) ==
  /\ d.currentPrice > d.ema7 /\ d.ema7 > d.ema100 /\ d.ema100 > d.ema200
  /\ ~PriceTooFar(d)
  /\ ~(d.rsi < 30 \/ d.rsi > 50)

\* isShortSignal with the momentum band open at its lower end (rsi <= 50
\* fails).
isShortSignal_OpenBand(d) ==
  /\ d.currentPrice < d.ema7 /\ d.ema7 < d.ema100 /\ d.ema100 < d.ema200
  /\ ~PriceTooFar(d)
  /\ ~(d.rsi <= 50 \/ d.rsi > 70)

\* isShortSignal without the EMA alignment check: distance and momentum
\* band only.
isShortSignal_NoAlignment(d) ==
  /\ ~PriceTooFar(d)
  /\ ~(d.rsi < 50 \/ d.rsi > 70)

isShortSignal(d) ==
  /\ d.currentPrice < d.ema7 /\ d.ema7 < d.ema100 /\ d.ema100 < d.ema200
  /\ ~PriceTooFar(d)
  /\ ~(d.rsi < 50 \/ d.rsi > 70)

\* determineLeverage with the extreme zones closed (rsi <= 35, rsi >= 65).
determineLeverage_ClosedZones(rsi, isLong) ==
  IF isLong /\ rsi <= 35 THEN HighLeverage
  ELSE IF ~isLong /\ rsi >= 65 THEN HighLeverage
  ELSE BaseLeverage

determineLeverage(rsi, isLong) ==
  IF isLong /\ rsi < 35 THEN HighLeverage
  ELSE IF ~isLong /\ rsi > 65 THEN HighLeverage
  ELSE BaseLeverage

\* The sum calculateConfidence builds before it clamps, in tenths of a point
\* (each quotient floored to the tenth): Math.min(emaSpread * 10, 30), the
\* RSI term and Math.max(0, (0.3 - priceDistance) * 100).  It is called for a
\* LONG or SHORT alignment only, where a zero ema200 makes emaSpread
\* +Infinity (and the minimum 30) and ema7 is never zero.
confidenceSum(d, action) ==
  LET diff == IF action = "LONG" THEN d.ema7 - d.ema200 ELSE d.ema200 - d.ema7
      spread == IF d.ema200 = 0 THEN 300
                ELSE Min((diff * 10000 * Sign(d.ema200)) \div Abs(d.ema200), 300)
      momentum == IF action = "LONG" THEN (50 - d.rsi) * 20 ELSE (d.rsi - 50) * 20
      distance == (Abs(d.currentPrice - d.ema7) * 100000) \div Abs(d.ema7)
  IN spread + momentum + Max(0, 300 - distance)

\* calculateConfidence without its final Math.min(Math.max(confidence, 0), 100).
calculateConfidence_Unclamped(d, action) == confidenceSum(d, action)

calculateConfidence(d, action) == Min(Max(confidenceSum(d, action), 0), 1000)

\* generateTradingSignal without the candles.length < 200 check.
generateTradingSignal_NoCandleCheck(nCandles, d) ==
  IF isLongSignal(d)
    THEN [action |-> "LONG", leverage |-> determineLeverage(d.rsi, TRUE),
          confidence |-> calculateConfidence(d, "LONG"), data |-> d]
  ELSE IF isShortSignal(d)
    THEN [action |-> "SHORT", leverage |-> determineLeverage(d.rsi, FALSE),
          confidence |-> calculateConfidence(d, "SHORT"), data |-> d]
  ELSE [action |-> "NO_SIGNAL", leverage |-> BaseLeverage, confidence |-> 0, data |-> d]

\* generateTradingSignal on nCandles fetched candles whose indicators are d
\* (fetchCandles returns [] when the fetch fails).
generateTradingSignal(nCandles, d) ==
  IF nCandles < CandleLimit
    THEN [action |-> "NO_SIGNAL", leverage |-> BaseLeverage, confidence |-> 0,
          data |-> NeutralData]
  ELSE IF isLongSignal(d)
    THEN [action |-> "LONG", leverage |-> determineLeverage(d.rsi, TRUE),
          confidence |-> calculateConfidence(d, "LONG"), data |-> d]
  ELSE IF isShortSignal(d)
    THEN [action |-> "SHORT", leverage |-> determineLeverage(d.rsi, FALSE),
          confidence |-> calculateConfidence(d, "SHORT"), data |-> d]
  ELSE [action |-> "NO_SIGNAL", leverage |-> BaseLeverage, confidence |-> 0, data |-> d]

\* The signal field of an invocation that has not generated one yet.
UnsetSignal == [action |-> "UNSET", leverage |-> 0, confidence |-> 0, data |-> NeutralData]

\* executeStrategy's branch on the signal (lines 51-65): executeTrade is
\* called unless the action is NO_SIGNAL; the confidence is only logged.
entersTrade(signal) == signal.action # "NO_SIGNAL"

----------------------------------------------------------------------------
(* Position sizing: executeTrade lines 87-91 and roundQuantity *)

\* The arguments <<balance, leverage, price>>, among those of SizingInputs,
\* for which the double ((balance * 0.95) * leverage / price) * 1000 is just
\* below the integer the exact product equals: balance * 0.95 is not
\* representable and rounds down (102 * 0.95 is 96.89999999999999, 144 * 0.95
\* is 136.79999999999998), and e.g. 102, 5, 48450 gives 9.999999999999998.
DoubleShortfalls ==
  { <<102, 5, 28500>>, <<102, 5, 48450>>, <<102, 5, 80750>>, <<102, 5, 96900>>,
    <<102, 10, 28500>>, <<102, 10, 48450>>, <<102, 10, 57000>>, <<102, 10, 80750>>,
    <<102, 10, 96900>>,
    <<144, 5, 28500>>, <<144, 5, 34200>>, <<144, 5, 36000>>, <<144, 5, 42750>>,
    <<144, 5, 45600>>, <<144, 5, 57000>>, <<144, 5, 68400>>, <<144, 5, 85500>>,
    <<144, 10, 28500>>, <<144, 10, 34200>>, <<144, 10, 36000>>, <<144, 10, 42750>>,
    <<144, 10, 45600>>, <<144, 10, 57000>>, <<144, 10, 68400>>, <<144, 10, 85500>> }

\* Math.floor(quantity * 1000) / 1000 of balance * 0.95 * leverage / price,
\* in thousandths: the floor of the double product, which is the floor of
\* the exact product except on DoubleShortfalls.  A zero price gives
\* Infinity (or NaN for a zero balance); neither is a positive quantity the
\* venue accepts.
roundQuantity(balance, leverage, price) ==
  IF price <= 0 THEN 0
  ELSE IF <<balance, leverage, price>> \in DoubleShortfalls
    THEN (balance * 95 * leverage * 1000) \div (100 * price) - 1
  ELSE (balance * 95 * leverage * 1000) \div (100 * price)

takeProfitPrice(action, price) ==
  IF action = "LONG" THEN price + TakeProfitPoints ELSE price - TakeProfitPoints

\* stopLossPrice with the signs of the two sides exchanged.
stopLossPrice_Swapped(action, price) ==
  IF action = "LONG" THEN price + StopLossPoints ELSE price - StopLossPoints

stopLossPrice(action, price) ==
  IF action = "LONG" THEN price - StopLossPoints ELSE price + StopLossPoints

OppositeSide(action) == IF action = "LONG" THEN "SELL" ELSE "BUY"
EntrySide(action) == IF action = "LONG" THEN "BUY" ELSE "SELL"

----------------------------------------------------------------------------
VARIABLES
  currentPosition,  \* AdvancedTradingService.currentPosition (NoPosition = null)
  accountBalance,   \* AdvancedTradingService.accountBalance
  tradeAmount,      \* config.tradeAmount
  cyc,              \* the executeStrategy invocations
  mon,              \* the monitorPosition invocations
  exPos,            \* the venue's position amount for the symbol (signed)
  exOrders,         \* the venue's resting (NEW) orders for the symbol
  exLeverage,       \* the venue's leverage for the symbol
  alerts,           \* what the engine sent to the notification sink
  exBalance,        \* the venue's USDT wallet balance
  calc,             \* the evaluation of a pure function: its arguments and result
  ts,               \* the TradingService.executeTradeSignal call and the calls before it
  conc              \* executeTradeSignal calls running together, one per symbol

vars ==
  <<currentPosition, accountBalance, tradeAmount, cyc, mon, exPos, exOrders, exLeverage, alerts, exBalance, calc, ts, conc>>

NoPosition == [side |-> "NONE"]

(* An executeStrategy invocation: pc is the await it is suspended at, sig   *)
(* the signal it generated, qty the rounded quantity of executeTrade, snap  *)
(* the positionAmt closeAllPositions read, fill the average price of the    *)
(* entry order's fill (in orderResult, 0 before the fill).  flat, wrote and *)
(* res record how it went: whether closeAllPositions completed ("ok") or    *)
(* threw ("failed"), whether it changed the venue's position or orders or   *)
(* cleared a tracked position, and how it ended.                            *)
IdleCycle ==
  [pc |-> "idle", sig |-> UnsetSignal, qty |-> 0, snap |-> 0, fill |-> 0,
   flat |-> "none", wrote |-> FALSE, res |-> "none"]

(* A monitorPosition invocation: res records how the tick ended, pnl the    *)
(* P&L its closure branch computed.                                         *)
IdleTick == [pc |-> "idle", res |-> "none", pnl |-> 0]

\* The unRealizedProfit figures the venue may report for an open position.
UnrealizedPnls == {12}

\* What the venue's wallet may hold when the bot starts.
WalletBalances == {100}

\* How far from the last candle's close a market order may fill.
FillSlippages == {0, 15}

\* What closing a position at the market may realize, in USDT.
MarketClosePnls == {-3, 0}

\* No pure-function evaluation is recorded.
NoCalc == [fn |-> "none"]

\* No send to the notification sink was made.
NoSend == [configured |-> FALSE, response |-> "none"]

(* The executeTradeSignal call: n counts the calls, pc is the await it is    *)
(* suspended at, action the signal's, price and qty what it computed, placed *)
(* the orders the venue accepted from it, in order.  err is the exchange     *)
(* call that rejected, thrown what the call rejected with, res how it ended, *)
(* sink what its notification met, skipped whether a cancelOrder was         *)
(* rejected and skipped, prev how the call before it ended.                  *)
IdleCall ==
  [n |-> 0, pc |-> "idle", action |-> "NONE", price |-> 0, qty |-> 0, placed |-> <<>>,
   err |-> "none", thrown |-> "none", res |-> "none", sink |-> NoSend,
   skipped |-> FALSE, prev |-> "none"]

\* The symbols signals are sent for (signal.symbol).
Symbols == {"BTCUSDT", "ETHUSDT"}

(* An executeTradeSignal call for a symbol, running together with the call   *)
(* for the other one (fields as in IdleCall), and the venue's book of one    *)
(* symbol: its position amount, its resting orders, and log, the orders the  *)
(* venue accepted for the symbol since the calls started.  beside is the     *)
(* await the other call was suspended at when this one was made.             *)
IdleSymbolCall ==
  [pc |-> "idle", action |-> "NONE", price |-> 0, qty |-> 0, err |-> "none", res |-> "none",
   beside |-> "none"]

EmptyBook == [pos |-> 0, resting |-> {}, log |-> <<>>]

NoConcurrentCalls ==
  [call |-> [s \in Symbols |-> IdleSymbolCall], book |-> [s \in Symbols |-> EmptyBook]]

Init ==
  /\ currentPosition = NoPosition
  /\ accountBalance = 0
  /\ tradeAmount \in TradeAmounts
  /\ cyc = [c \in Cycles |-> IdleCycle]
  /\ mon = [m \in Ticks |-> IdleTick]
  /\ exPos = 0
  /\ exOrders = {}
  /\ exLeverage = ConfigLeverage
  /\ alerts = {}
  /\ exBalance \in WalletBalances
  /\ calc = NoCalc
  /\ ts = IdleCall
  /\ conc = NoConcurrentCalls

----------------------------------------------------------------------------
(* The venue, as BinanceFuturesService uses it *)

\* A reduce-only order on `side` is accepted only against a position it
\* reduces (submitNewOrder with reduceOnly: 'true').
ReduceOnlyAccepted(side) ==
  \/ side = "SELL" /\ exPos > 0
  \/ side = "BUY" /\ exPos < 0

\* The protective order executeTrade / setTakeProfitStopLoss submits through
\* placeTakeProfitOrder or placeStopLossOrder for invocation c.
BracketOrder(c, type) ==
  LET s == cyc[c].sig IN
  [type |-> type, side |-> OppositeSide(s.action), qty |-> cyc[c].qty,
   stop |-> IF type = "TAKE_PROFIT_MARKET"
              THEN takeProfitPrice(s.action, s.data.currentPrice)
              ELSE stopLossPrice(s.action, s.data.currentPrice),
   reduceOnly |-> TRUE, cid |-> c]

\* What the venue realizes when `qty` thousandths entered at `entry` leave
\* at `exit` through an order on `side`.
RealizedPnl(side, qty, entry, exit) ==
  IF side = "SELL" THEN (qty * (exit - entry)) \div 1000
  ELSE (qty * (entry - exit)) \div 1000

\* A resting protective order triggers at the venue at its stop price and
\* reduces the position; the wallet takes the realized profit or loss.
BracketFill ==
  \E o \in exOrders :
    /\ ReduceOnlyAccepted(o.side)
    /\ exPos' = exPos - Sign(exPos) * Min(Abs(exPos), o.qty)
    /\ exOrders' = exOrders \ {o}
    /\ exBalance' = exBalance
         + RealizedPnl(o.side, Min(Abs(exPos), o.qty), cyc[o.cid].fill, o.stop)
    /\ UNCHANGED <<currentPosition, accountBalance, tradeAmount, cyc, mon, exLeverage,
                   alerts, calc, ts, conc>>

\* getCurrentBalance: the venue is queried, its answer (or failure) is not
\* used.
getCurrentBalance == IF accountBalance # 0 THEN accountBalance ELSE tradeAmount

----------------------------------------------------------------------------
(* executeStrategy, one invocation c per cron trigger *)

\* The cron callback of '33 16 * * *' calls executeStrategy, which calls
\* updateAccountBalance; getCurrentBalance awaits getPositions.
Trigger(c) ==
  /\ cyc[c].pc = "idle"
  /\ IF c = 1 THEN TRUE ELSE cyc[c - 1].pc # "idle"
  /\ cyc' = [cyc EXCEPT ![c].pc = "balance"]
  /\ UNCHANGED <<currentPosition, accountBalance, tradeAmount, mon, exPos, exOrders,
                 exLeverage, alerts, exBalance, calc, ts, conc>>

\* BalanceReturn with getCurrentBalance returning the wallet balance the
\* venue reports.
BalanceReturn_ReadsWallet(c) ==
  /\ cyc[c].pc = "balance"
  /\ cyc' = [cyc EXCEPT ![c].pc = "closeQuery"]
  /\ accountBalance' = exBalance
  /\ UNCHANGED <<currentPosition, tradeAmount, mon, exPos, exOrders, exLeverage, alerts, exBalance, calc, ts, conc>>

\* getPositions answers or fails inside getCurrentBalance, with the same
\* effect; the balance is stored and closeAllPositions starts with the
\* venue's getPositions.
BalanceReturn(c) ==
  /\ cyc[c].pc = "balance"
  /\ cyc' = [cyc EXCEPT ![c].pc = "closeQuery"]
  /\ accountBalance' = getCurrentBalance
  /\ UNCHANGED <<currentPosition, tradeAmount, mon, exPos, exOrders, exLeverage, alerts, exBalance, calc, ts, conc>>

\* closeAllPositions' catch: the error is logged and executeStrategy goes on
\* to generateTradingSignal (fetchCandles in flight).
CloseFailed(c) ==
  cyc' = [cyc EXCEPT ![c].pc = "signal", ![c].flat = "failed"]

\* BinanceFuturesService.closeAllPositions: getPositions answers.
CloseQueryReturn(c) ==
  /\ cyc[c].pc = "closeQuery"
  /\ \/ cyc' = [cyc EXCEPT
          ![c].pc = IF exPos # 0 THEN "closeOrder" ELSE "cancel",
          ![c].snap = exPos]
     \/ CloseFailed(c)
  /\ UNCHANGED <<currentPosition, accountBalance, tradeAmount, mon, exPos, exOrders,
                 exLeverage, alerts, exBalance, calc, ts, conc>>

\* The reduce-only market order that closes the position read before.
CloseOrderReturn(c) ==
  /\ cyc[c].pc = "closeOrder"
  /\ \/ /\ ReduceOnlyAccepted(IF cyc[c].snap > 0 THEN "SELL" ELSE "BUY")
        /\ exPos' = exPos - Sign(exPos) * Min(Abs(exPos), Abs(cyc[c].snap))
        /\ \E p \in MarketClosePnls : exBalance' = exBalance + p
        /\ cyc' = [cyc EXCEPT ![c].pc = "cancel", ![c].wrote = TRUE]
     \/ /\ CloseFailed(c)
        /\ UNCHANGED <<exPos, exBalance>>
  /\ UNCHANGED <<currentPosition, accountBalance, tradeAmount, mon, exOrders, exLeverage,
                 alerts, calc, ts, conc>>

\* CancelReturn with `this.currentPosition = null` run on the failure path
\* as well (as in a finally block).
CancelReturn_ClearsOnFailure(c) ==
  /\ cyc[c].pc = "cancel"
  /\ \/ \E S \in SUBSET exOrders :
          /\ exOrders' = exOrders \ S
          /\ currentPosition' = NoPosition
          /\ cyc' = [cyc EXCEPT
               ![c].pc = "settle",
               ![c].flat = "ok",
               ![c].wrote = @ \/ S # {} \/ currentPosition # NoPosition]
     \/ /\ CloseFailed(c)
        /\ currentPosition' = NoPosition
        /\ UNCHANGED exOrders
  /\ UNCHANGED <<accountBalance, tradeAmount, mon, exPos, exLeverage, alerts, exBalance, calc, ts, conc>>

\* cancelAllOrders answers: getAllOrders failed, or the orders in S were
\* cancelled (a failing cancelOrder is skipped).  On success the tracked
\* position is cleared and the 2 s settle delay starts.
CancelReturn(c) ==
  /\ cyc[c].pc = "cancel"
  /\ \/ \E S \in SUBSET exOrders :
          /\ exOrders' = exOrders \ S
          /\ currentPosition' = NoPosition
          /\ cyc' = [cyc EXCEPT
               ![c].pc = "settle",
               ![c].flat = "ok",
               ![c].wrote = @ \/ S # {} \/ currentPosition # NoPosition]
     \/ /\ CloseFailed(c)
        /\ UNCHANGED <<exOrders, currentPosition>>
  /\ UNCHANGED <<accountBalance, tradeAmount, mon, exPos, exLeverage, alerts, exBalance, calc, ts, conc>>

\* The settle timer fires; generateTradingSignal awaits fetchCandles.
SettleReturn(c) ==
  /\ cyc[c].pc = "settle"
  /\ cyc' = [cyc EXCEPT ![c].pc = "signal"]
  /\ UNCHANGED <<currentPosition, accountBalance, tradeAmount, mon, exPos, exOrders,
                 exLeverage, alerts, exBalance, calc, ts, conc>>

\* TradeFailed without executeStrategy's catch: the error executeTrade
\* rethrew leaves executeStrategy as a rejection.
TradeFailed_Rethrown(c, res) ==
  cyc' = [cyc EXCEPT ![c].pc = "raised", ![c].res = res]

\* executeStrategy's catch after executeTrade rethrew: the error is logged
\* with Logger.error and the invocation ends.
TradeFailed(c, res) ==
  cyc' = [cyc EXCEPT ![c].pc = "done", ![c].res = res]

\* SignalReturn without the early return on NO_SIGNAL: executeTrade is
\* entered whatever the signal.
SignalReturn_NoEarlyReturn(c) ==
  /\ cyc[c].pc = "signal"
  /\ \E n \in {0, CandleLimit}, d \in Snapshots :
       cyc' = [cyc EXCEPT ![c].pc = "leverage", ![c].sig = generateTradingSignal(n, d)]
  /\ UNCHANGED <<currentPosition, accountBalance, tradeAmount, mon, exPos, exOrders,
                 exLeverage, alerts, exBalance, calc, ts, conc>>

\* generateTradingSignal answers: NO_SIGNAL ends the invocation, a LONG or
\* SHORT signal enters executeTrade, which awaits setLeverage.
SignalReturn(c) ==
  /\ cyc[c].pc = "signal"
  /\ \E n \in {0, CandleLimit}, d \in Snapshots :
       LET s == generateTradingSignal(n, d) IN
       cyc' = [cyc EXCEPT
         ![c].pc = IF entersTrade(s) THEN "leverage" ELSE "done",
         ![c].res = IF entersTrade(s) THEN @ ELSE "noSignal",
         ![c].sig = s]
  /\ UNCHANGED <<currentPosition, accountBalance, tradeAmount, mon, exPos, exOrders,
                 exLeverage, alerts, exBalance, calc, ts, conc>>

\* LeverageReturn with a rejected setLeverage logged and not rethrown:
\* executeTrade goes on to size and submit the market order.
LeverageReturn_FailureContinues(c) ==
  /\ cyc[c].pc = "leverage"
  /\ cyc' = [cyc EXCEPT
       ![c].pc = "entry",
       ![c].qty = roundQuantity(accountBalance, cyc[c].sig.leverage,
                                cyc[c].sig.data.currentPrice)]
  /\ \/ exLeverage' = cyc[c].sig.leverage
     \/ UNCHANGED exLeverage
  /\ UNCHANGED <<currentPosition, accountBalance, tradeAmount, mon, exPos, exOrders, alerts, exBalance, calc, ts, conc>>

\* setLeverage answers; the quantity is sized from the cached balance and
\* the market order is submitted.
LeverageReturn(c) ==
  /\ cyc[c].pc = "leverage"
  /\ \/ /\ exLeverage' = cyc[c].sig.leverage
        /\ cyc' = [cyc EXCEPT
             ![c].pc = "entry",
             ![c].qty = roundQuantity(accountBalance, cyc[c].sig.leverage,
                                      cyc[c].sig.data.currentPrice)]
     \/ /\ TradeFailed(c, "leverageFailed")
        /\ UNCHANGED exLeverage
  /\ UNCHANGED <<currentPosition, accountBalance, tradeAmount, mon, exPos, exOrders, alerts, exBalance, calc, ts, conc>>

\* EntryReturn with a rejected market order logged and not rethrown:
\* executeTrade goes on to the protective orders.
EntryReturn_FailureContinues(c) ==
  /\ cyc[c].pc = "entry"
  /\ \/ /\ cyc[c].qty > 0
        /\ exPos' = IF EntrySide(cyc[c].sig.action) = "BUY"
                      THEN exPos + cyc[c].qty ELSE exPos - cyc[c].qty
        /\ \E slip \in FillSlippages :
             cyc' = [cyc EXCEPT
               ![c].pc = "takeProfit",
               ![c].fill = cyc[c].sig.data.currentPrice + slip]
     \/ /\ cyc' = [cyc EXCEPT ![c].pc = "takeProfit", ![c].res = "entryFailed"]
        /\ UNCHANGED exPos
  /\ UNCHANGED <<currentPosition, accountBalance, tradeAmount, mon, exOrders, exLeverage,
                 alerts, exBalance, calc, ts, conc>>

\* EntryReturn with the position recorded as soon as the market order is
\* filled, before the protective orders are submitted.
EntryReturn_RecordsAtFill(c) ==
  /\ cyc[c].pc = "entry"
  /\ \/ /\ cyc[c].qty > 0
        /\ exPos' = IF EntrySide(cyc[c].sig.action) = "BUY"
                      THEN exPos + cyc[c].qty ELSE exPos - cyc[c].qty
        /\ \E slip \in FillSlippages :
             cyc' = [cyc EXCEPT
               ![c].pc = "takeProfit",
               ![c].fill = cyc[c].sig.data.currentPrice + slip]
        /\ currentPosition' =
             [side |-> cyc[c].sig.action, size |-> cyc[c].qty,
              entryPrice |-> cyc[c].sig.data.currentPrice,
              leverage |-> cyc[c].sig.leverage,
              takeProfitPrice |-> takeProfitPrice(cyc[c].sig.action, cyc[c].sig.data.currentPrice),
              stopLossPrice |-> stopLossPrice(cyc[c].sig.action, cyc[c].sig.data.currentPrice),
              unrealizedPnl |-> 0]
     \/ /\ TradeFailed(c, "entryFailed")
        /\ UNCHANGED <<exPos, currentPosition>>
  /\ UNCHANGED <<accountBalance, tradeAmount, mon, exOrders, exLeverage,
                 alerts, exBalance, calc, ts, conc>>

\* placeMarketOrder answers: the venue fills a positive quantity at the
\* market, and rejects any other; orderResult is logged by the service and
\* not read again, the protective prices are computed from the signal's
\* data.currentPrice, and placeTakeProfitOrder is submitted.
EntryReturn(c) ==
  /\ cyc[c].pc = "entry"
  /\ \/ /\ cyc[c].qty > 0
        /\ exPos' = IF EntrySide(cyc[c].sig.action) = "BUY"
                      THEN exPos + cyc[c].qty ELSE exPos - cyc[c].qty
        /\ \E slip \in FillSlippages :
             cyc' = [cyc EXCEPT
               ![c].pc = "takeProfit",
               ![c].fill = cyc[c].sig.data.currentPrice + slip]
     \/ /\ TradeFailed(c, "entryFailed")
        /\ UNCHANGED exPos
  /\ UNCHANGED <<currentPosition, accountBalance, tradeAmount, mon, exOrders, exLeverage,
                 alerts, exBalance, calc, ts, conc>>

\* placeTakeProfitOrder answers; then placeStopLossOrder is submitted.
TakeProfitReturn(c) ==
  /\ cyc[c].pc = "takeProfit"
  /\ \/ /\ ReduceOnlyAccepted(OppositeSide(cyc[c].sig.action))
        /\ exOrders' = exOrders \cup {BracketOrder(c, "TAKE_PROFIT_MARKET")}
        /\ cyc' = [cyc EXCEPT ![c].pc = "stopLoss"]
     \/ /\ TradeFailed(c, "bracketFailed")
        /\ UNCHANGED exOrders
  /\ UNCHANGED <<currentPosition, accountBalance, tradeAmount, mon, exPos, exLeverage,
                 alerts, exBalance, calc, ts, conc>>

\* The position executeTrade records once both protective orders are placed.
NewPosition(c) ==
  LET s == cyc[c].sig IN
  [side |-> s.action, size |-> cyc[c].qty, entryPrice |-> s.data.currentPrice,
   leverage |-> s.leverage,
   takeProfitPrice |-> takeProfitPrice(s.action, s.data.currentPrice),
   stopLossPrice |-> stopLossPrice(s.action, s.data.currentPrice),
   unrealizedPnl |-> 0]

\* placeStopLossOrder answers; on success the position is recorded and
\* executeStrategy returns.
StopLossReturn(c) ==
  /\ cyc[c].pc = "stopLoss"
  /\ \/ /\ ReduceOnlyAccepted(OppositeSide(cyc[c].sig.action))
        /\ exOrders' = exOrders \cup {BracketOrder(c, "STOP_MARKET")}
        /\ currentPosition' = NewPosition(c)
        /\ cyc' = [cyc EXCEPT ![c].pc = "done", ![c].res = "open"]
     \/ /\ TradeFailed(c, "bracketFailed")
        /\ UNCHANGED <<exOrders, currentPosition>>
  /\ UNCHANGED <<accountBalance, tradeAmount, mon, exPos, exLeverage, alerts, exBalance, calc, ts, conc>>

----------------------------------------------------------------------------
(* monitorPosition, one invocation m per tick of the '* * * * *' cron *)

\* The tick returns at once when no position is tracked, and otherwise
\* awaits getPositions.
Tick(m) ==
  /\ mon[m].pc = "idle"
  /\ IF m = 1 THEN TRUE ELSE mon[m - 1].pc # "idle"
  /\ mon' = [mon EXCEPT
       ![m].pc = IF currentPosition = NoPosition THEN "done" ELSE "query",
       ![m].res = IF currentPosition = NoPosition THEN "skipped" ELSE "none"]
  /\ UNCHANGED <<currentPosition, accountBalance, tradeAmount, cyc, exPos, exOrders,
                 exLeverage, alerts, exBalance, calc, ts, conc>>

\* monitorPosition's catch: the error is logged with Logger.error and the
\* tick ends.
MonitorFailed(m, res) ==
  mon' = [mon EXCEPT ![m].pc = "done", ![m].res = res]

\* MonitorQueryReturn with a failed query read as an empty position list
\* (getPositions catching its error and returning []).
MonitorQueryReturn_FailureAsEmpty(m) ==
  /\ mon[m].pc = "query"
  /\ \/ /\ mon' = [mon EXCEPT ![m].pc = "balance", ![m].res = "queryFailed"]
        /\ UNCHANGED currentPosition
     \/ /\ exPos = 0
        /\ mon' = [mon EXCEPT ![m].pc = "balance"]
        /\ UNCHANGED currentPosition
     \/ /\ exPos # 0
        /\ currentPosition = NoPosition
        /\ MonitorFailed(m, "typeError")
        /\ UNCHANGED currentPosition
     \/ /\ exPos # 0
        /\ currentPosition # NoPosition
        /\ \E u \in UnrealizedPnls :
             currentPosition' = [currentPosition EXCEPT !.unrealizedPnl = u]
        /\ mon' = [mon EXCEPT ![m].pc = "done", ![m].res = "refreshed"]
  /\ UNCHANGED <<accountBalance, tradeAmount, cyc, exPos, exOrders, exLeverage, alerts, exBalance, calc, ts, conc>>

\* MonitorQueryReturn with the refresh adding the unrealized P&L to the
\* cached balance.
MonitorQueryReturn_RefreshBooksPnl(m) ==
  /\ mon[m].pc = "query"
  /\ \/ /\ MonitorFailed(m, "queryFailed")
        /\ UNCHANGED <<currentPosition, accountBalance>>
     \/ /\ exPos = 0
        /\ mon' = [mon EXCEPT ![m].pc = "balance"]
        /\ UNCHANGED <<currentPosition, accountBalance>>
     \/ /\ exPos # 0
        /\ currentPosition = NoPosition
        /\ MonitorFailed(m, "typeError")
        /\ UNCHANGED <<currentPosition, accountBalance>>
     \/ /\ exPos # 0
        /\ currentPosition # NoPosition
        /\ \E u \in UnrealizedPnls :
             /\ currentPosition' = [currentPosition EXCEPT !.unrealizedPnl = u]
             /\ accountBalance' = accountBalance + u
        /\ mon' = [mon EXCEPT ![m].pc = "done", ![m].res = "refreshed"]
  /\ UNCHANGED <<tradeAmount, cyc, exPos, exOrders, exLeverage, alerts, exBalance, calc, ts, conc>>

\* getPositions answers.  The venue's list holds the symbol iff its amount
\* is nonzero; find's callback reads this.currentPosition.symbol for every
\* listed position, which throws when the position was cleared meanwhile.
MonitorQueryReturn(m) ==
  /\ mon[m].pc = "query"
  /\ \/ /\ MonitorFailed(m, "queryFailed")
        /\ UNCHANGED currentPosition
     \/ /\ exPos = 0
        /\ mon' = [mon EXCEPT ![m].pc = "balance"]
        /\ UNCHANGED currentPosition
     \/ /\ exPos # 0
        /\ currentPosition = NoPosition
        /\ MonitorFailed(m, "typeError")
        /\ UNCHANGED currentPosition
     \/ /\ exPos # 0
        /\ currentPosition # NoPosition
        /\ \E u \in UnrealizedPnls :
             currentPosition' = [currentPosition EXCEPT !.unrealizedPnl = u]
        /\ mon' = [mon EXCEPT ![m].pc = "done", ![m].res = "refreshed"]
  /\ UNCHANGED <<accountBalance, tradeAmount, cyc, exPos, exOrders, exLeverage, alerts, exBalance, calc, ts, conc>>

\* getCurrentBalance answers in the closure branch: the P&L is computed,
\* the position cleared, the balance stored, and cancelAllOrders submitted.
MonitorBalanceReturn(m) ==
  /\ mon[m].pc = "balance"
  /\ mon' = [mon EXCEPT ![m].pc = "cancel", ![m].pnl = getCurrentBalance - accountBalance]
  /\ currentPosition' = NoPosition
  /\ accountBalance' = getCurrentBalance
  /\ UNCHANGED <<tradeAmount, cyc, exPos, exOrders, exLeverage, alerts, exBalance, calc, ts, conc>>

\* cancelAllOrders answers (as in CancelReturn) and the tick ends.
MonitorCancelReturn(m) ==
  /\ mon[m].pc = "cancel"
  /\ \/ \E S \in SUBSET exOrders :
          /\ exOrders' = exOrders \ S
          /\ mon' = [mon EXCEPT ![m].pc = "done", ![m].res = "closed"]
     \/ /\ MonitorFailed(m, "cancelFailed")
        /\ UNCHANGED exOrders
  /\ UNCHANGED <<currentPosition, accountBalance, tradeAmount, cyc, exPos, exLeverage, alerts, exBalance, calc, ts, conc>>

----------------------------------------------------------------------------
Next ==
  \/ \E c \in Cycles : Trigger(c)
  \/ \E c \in Cycles : BalanceReturn(c)
  \/ \E c \in Cycles : CloseQueryReturn(c)
  \/ \E c \in Cycles : CloseOrderReturn(c)
  \/ \E c \in Cycles : CancelReturn(c)
  \/ \E c \in Cycles : SettleReturn(c)
  \/ \E c \in Cycles : SignalReturn(c)
  \/ \E c \in Cycles : LeverageReturn(c)
  \/ \E c \in Cycles : EntryReturn(c)
  \/ \E c \in Cycles : TakeProfitReturn(c)
  \/ \E c \in Cycles : StopLossReturn(c)
  \/ \E m \in Ticks : Tick(m)
  \/ \E m \in Ticks : MonitorQueryReturn(m)
  \/ \E m \in Ticks : MonitorBalanceReturn(m)
  \/ \E m \in Ticks : MonitorCancelReturn(m)
  \/ BracketFill

Spec == Init /\ [][Next]_vars

\* The monitor's ticks and the venue's answers to awaited calls.  The
\* strategy's trigger comes once a day and BracketFill is the market's:
\* neither is bound to come.
EngineNext ==
  \/ \E c \in Cycles :
       \/ BalanceReturn(c) \/ CloseQueryReturn(c) \/ CloseOrderReturn(c)
       \/ CancelReturn(c) \/ SettleReturn(c) \/ SignalReturn(c) \/ LeverageReturn(c)
       \/ EntryReturn(c) \/ TakeProfitReturn(c) \/ StopLossReturn(c)
  \/ \E m \in Ticks :
       \/ Tick(m) \/ MonitorQueryReturn(m) \/ MonitorBalanceReturn(m)
       \/ MonitorCancelReturn(m)

\* node-cron fires the monitor's callback every minute and every awaited
\* call is answered (with a result or an error).
SpecLive == Spec /\ WF_vars(EngineNext)

----------------------------------------------------------------------------
(* The signal decision and the position sizing, evaluated on their own *)

\* How many candles fetchCandles may return ([] when the fetch fails).
CandleCounts == {0, 199, 200}

\* The indicator values calculateIndicators may compute from the feed,
\* a degenerate feed (zero or negative closes) included.
GridPrices == {-1000, 0, 40896, 40897, 41000, 42000, 42105, 42106, 42126, 42127}
GridEma7 == {-1001, 0, 41020, 41980, 42000}
GridEma100 == {-1002, 0, 41500}
GridEma200 == {-1003, 0, 41000, 42000}
GridRsi == {29, 30, 34, 35, 45, 50, 51, 65, 66, 70, 71}

SnapshotGrid ==
  [ema7 : GridEma7, ema100 : GridEma100, ema200 : GridEma200, rsi : GridRsi,
   currentPrice : GridPrices]

\* The balances, leverages and prices executeTrade may size a position from.
SizingInputs ==
  {100, 102, 144, 1000} \X {BaseLeverage, HighLeverage}
    \X {28500, 34200, 36000, 41000, 42000, 42750, 45600, 48450, 57000, 68400,
        80750, 85500, 96900}

\* technicalService.generateTradingSignal is called and returns.
EvalSignal ==
  /\ calc = NoCalc
  /\ \E n \in CandleCounts, d \in SnapshotGrid :
       calc' = [fn |-> "generateTradingSignal", n |-> n, d |-> d,
                out |-> generateTradingSignal(n, d)]
  /\ UNCHANGED <<currentPosition, accountBalance, tradeAmount, cyc, mon, exPos, exOrders,
                 exLeverage, alerts, exBalance, ts, conc>>

\* executeTrade sizes the position (lines 87-91).
EvalQuantity ==
  /\ calc = NoCalc
  /\ \E a \in SizingInputs :
       calc' = [fn |-> "roundQuantity", balance |-> a[1], leverage |-> a[2],
                price |-> a[3], out |-> roundQuantity(a[1], a[2], a[3])]
  /\ UNCHANGED <<currentPosition, accountBalance, tradeAmount, cyc, mon, exPos, exOrders,
                 exLeverage, alerts, exBalance, ts, conc>>

\* The confidences a signal may carry into executeStrategy (tenths).
SignalConfidences == {0, 499, 500, 1000}

\* executeStrategy receives a signal and decides whether to call executeTrade.
EvalStrategy ==
  /\ calc = NoCalc
  /\ \E n \in CandleCounts, d \in Snapshots, k \in SignalConfidences :
       LET s == [generateTradingSignal(n, d) EXCEPT !.confidence = k] IN
       calc' = [fn |-> "executeStrategy", signal |-> s, trades |-> entersTrade(s)]
  /\ UNCHANGED <<currentPosition, accountBalance, tradeAmount, cyc, mon, exPos, exOrders,
                 exLeverage, alerts, exBalance, ts, conc>>

NextCalc ==
  \/ EvalSignal
  \/ EvalQuantity
  \/ EvalStrategy

SpecCalc == Init /\ [][NextCalc]_vars

----------------------------------------------------------------------------
(* The engine after a restart of the process *)

\* The position amounts a previous run of the process may have left open at
\* the venue (an entry whose protective orders were rejected, or a process
\* stopped while its position was open).
LeftoverPositions == {-22, 22}

\* The constructor's state, over a venue that still holds such a position.
InitRestart ==
  /\ currentPosition = NoPosition
  /\ accountBalance = 0
  /\ tradeAmount \in TradeAmounts
  /\ cyc = [c \in Cycles |-> IdleCycle]
  /\ mon = [m \in Ticks |-> IdleTick]
  /\ exPos \in LeftoverPositions
  /\ exOrders = {}
  /\ exLeverage = ConfigLeverage
  /\ alerts = {}
  /\ exBalance \in WalletBalances
  /\ calc = NoCalc
  /\ ts = IdleCall
  /\ conc = NoConcurrentCalls

\* The process from its start up to and including its first daily trigger:
\* the monitor's ticks, the first executeStrategy invocation and the venue.
NextRestart ==
  \/ Trigger(1)
  \/ BalanceReturn(1)
  \/ CloseQueryReturn(1)
  \/ CloseOrderReturn(1)
  \/ CancelReturn(1)
  \/ SettleReturn(1)
  \/ SignalReturn(1)
  \/ LeverageReturn(1)
  \/ EntryReturn(1)
  \/ TakeProfitReturn(1)
  \/ StopLossReturn(1)
  \/ \E m \in Ticks : Tick(m)
  \/ \E m \in Ticks : MonitorQueryReturn(m)
  \/ \E m \in Ticks : MonitorBalanceReturn(m)
  \/ \E m \in Ticks : MonitorCancelReturn(m)
  \/ BracketFill

SpecRestart == InitRestart /\ [][NextRestart]_vars

----------------------------------------------------------------------------
(* A monitor tick that is running when the next strategy trigger comes *)

\* The first invocation as it stands once it has opened a position from
\* snapshot d with the entry filled at slippage slip.
OpenedCycle(d, slip) ==
  LET sg == generateTradingSignal(CandleLimit, d) IN
  [pc |-> "done", sig |-> sg,
   qty |-> roundQuantity(100, sg.leverage, d.currentPrice), snap |-> 0,
   fill |-> d.currentPrice + slip, flat |-> "ok", wrote |-> FALSE, res |-> "open"]

\* The engine a day after its first invocation opened a position, which is
\* still tracked: the position is open with both protective orders resting,
\* or one of them has triggered at the venue meanwhile (the other still
\* rests).  A monitor tick has started and awaits getPositions.
InitOverlap ==
  /\ tradeAmount = 100
  /\ accountBalance = 100
  /\ \E d \in {x \in Snapshots : entersTrade(generateTradingSignal(CandleLimit, x))},
        slip \in FillSlippages :
       cyc = [c \in Cycles |-> IF c = 1 THEN OpenedCycle(d, slip) ELSE IdleCycle]
  /\ currentPosition = NewPosition(1)
  /\ mon = [m \in Ticks |-> IF m = 1 THEN [IdleTick EXCEPT !.pc = "query"] ELSE IdleTick]
  /\ \E F \in {{}, {BracketOrder(1, "TAKE_PROFIT_MARKET")}, {BracketOrder(1, "STOP_MARKET")}} :
       /\ exOrders = {BracketOrder(1, "TAKE_PROFIT_MARKET"), BracketOrder(1, "STOP_MARKET")} \ F
       /\ exPos = IF F # {} THEN 0
                  ELSE IF EntrySide(cyc[1].sig.action) = "BUY" THEN cyc[1].qty
                  ELSE -cyc[1].qty
       /\ exBalance \in
            {100 + RealizedPnl(o.side, o.qty, cyc[1].fill, o.stop) : o \in F}
              \cup (IF F = {} THEN {100} ELSE {})
  /\ exLeverage = cyc[1].sig.leverage
  /\ alerts = {}
  /\ calc = NoCalc
  /\ ts = IdleCall
  /\ conc = NoConcurrentCalls

\* From there on: the second daily trigger and its invocation, the
\* monitor's ticks and the venue.
NextOverlap ==
  \/ Trigger(2)
  \/ BalanceReturn(2)
  \/ CloseQueryReturn(2)
  \/ CloseOrderReturn(2)
  \/ CancelReturn(2)
  \/ SettleReturn(2)
  \/ SignalReturn(2)
  \/ LeverageReturn(2)
  \/ EntryReturn(2)
  \/ TakeProfitReturn(2)
  \/ StopLossReturn(2)
  \/ \E m \in Ticks : Tick(m)
  \/ \E m \in Ticks : MonitorQueryReturn(m)
  \/ \E m \in Ticks : MonitorBalanceReturn(m)
  \/ \E m \in Ticks : MonitorCancelReturn(m)
  \/ BracketFill

SpecOverlap == InitOverlap /\ [][NextOverlap]_vars

----------------------------------------------------------------------------
(* TradingService.executeTradeSignal and the notification sink *)

\* Number of executeTradeSignal calls in a behaviour, one after the other.
MaxCalls == 2

\* What getCurrentPrice may return.
TickerPrices == {10000, 42000}

\* What a send may meet: the credentials set or not, and axios.post
\* answering ok: true, answering ok: false, or rejecting.
SinkStates == [configured : BOOLEAN, response : {"ok", "notOk", "networkError"}]

\* TelegramService.sendMessage: the value it resolves to.  It returns false
\* without posting when unconfigured, false from its catch when the post
\* rejects, and response.data.ok otherwise.
sendMessage(sink) ==
  IF ~sink.configured THEN FALSE
  ELSE IF sink.response = "networkError" THEN FALSE
  ELSE sink.response = "ok"

\* (config.tradeAmount * config.leverage / currentPrice).toFixed(3), in
\* thousandths: rounded to the nearest.
tradeQuantity(amount, price) ==
  (2 * amount * ConfigLeverage * 1000 + price) \div (2 * price)

\* BinanceFuturesService.calculateStopLossPrice: one point is 0.01% of the
\* entry price.
calculateStopLossPrice(entryPrice, side, points) ==
  IF side = "BUY" THEN entryPrice - (points * entryPrice) \div 10000
  ELSE entryPrice + (points * entryPrice) \div 10000

calculateTakeProfitPrice(entryPrice, side, points) ==
  IF side = "BUY" THEN entryPrice + (points * entryPrice) \div 10000
  ELSE entryPrice - (points * entryPrice) \div 10000

\* stopLossSide / takeProfitSide of executeTradeSignal.
ProtectiveSide(action) == IF action = "BUY" THEN "SELL" ELSE "BUY"

\* An order executeTradeSignal had the venue accept.
TradeOrder(type, side, qty, stop, reduceOnly) ==
  [type |-> type, side |-> side, qty |-> qty, stop |-> stop, reduceOnly |-> reduceOnly,
   call |-> ts.n]

\* A new call: the signal's action is BUY or SELL, and closeAllPositions
\* awaits getPositions.  prev is how the call before it ended.
ExecuteTradeSignal ==
  /\ ts.pc \in {"idle", "done"}
  /\ ts.n < MaxCalls
  /\ \E a \in {"BUY", "SELL"} :
       ts' = [IdleCall EXCEPT !.n = ts.n + 1, !.pc = "positions", !.action = a,
                              !.prev = ts.res]
  /\ UNCHANGED <<currentPosition, accountBalance, tradeAmount, cyc, mon, exPos, exOrders,
                 exLeverage, alerts, exBalance, calc, conc>>

\* An awaited exchange call rejected: control is in executeTradeSignal's
\* catch, which awaits sendErrorAlert.
TradeStepFailed(step) ==
  ts' = [ts EXCEPT !.pc = "errorAlert", !.err = step]

\* closeAllPositions: getPositions answers.
TradePositionsReturn ==
  /\ ts.pc = "positions"
  /\ \/ ts' = [ts EXCEPT !.pc = IF exPos # 0 THEN "close" ELSE "cancel"]
     \/ TradeStepFailed("closeAllPositions")
  /\ UNCHANGED <<currentPosition, accountBalance, tradeAmount, cyc, mon, exPos, exOrders,
                 exLeverage, alerts, exBalance, calc, conc>>

\* closeAllPositions: the reduce-only market order against the position
\* answers; cancelAllOrders follows.
TradeCloseReturn ==
  /\ ts.pc = "close"
  /\ \/ /\ exPos # 0
        /\ ts' = [ts EXCEPT
             !.pc = "cancel",
             !.placed = Append(@, TradeOrder("MARKET", IF exPos > 0 THEN "SELL" ELSE "BUY",
                                             Abs(exPos), 0, TRUE))]
        /\ exPos' = 0
     \/ /\ TradeStepFailed("closeAllPositions")
        /\ UNCHANGED exPos
  /\ UNCHANGED <<currentPosition, accountBalance, tradeAmount, cyc, mon, exOrders,
                 exLeverage, alerts, exBalance, calc, conc>>

\* cancelAllOrders: getAllOrders answers and each active order is cancelled
\* in turn, a rejected cancelOrder being logged and skipped; a rejected
\* getAllOrders is rethrown.  The one-second wait follows.
TradeCancelReturn ==
  /\ ts.pc = "cancel"
  /\ \/ \E S \in SUBSET exOrders :
          /\ exOrders' = exOrders \ S
          /\ ts' = [ts EXCEPT !.pc = "wait", !.skipped = (S # exOrders)]
     \/ /\ TradeStepFailed("cancelAllOrders")
        /\ UNCHANGED exOrders
  /\ UNCHANGED <<currentPosition, accountBalance, tradeAmount, cyc, mon, exPos,
                 exLeverage, alerts, exBalance, calc, conc>>

\* The setTimeout of 1000 ms fires; getCurrentPrice is awaited.
TradeWaitReturn ==
  /\ ts.pc = "wait"
  /\ ts' = [ts EXCEPT !.pc = "price"]
  /\ UNCHANGED <<currentPosition, accountBalance, tradeAmount, cyc, mon, exPos, exOrders,
                 exLeverage, alerts, exBalance, calc, conc>>

\* getCurrentPrice answers; the quantity is computed and the market order
\* submitted.
TradePriceReturn ==
  /\ ts.pc = "price"
  /\ \/ \E p \in TickerPrices :
          ts' = [ts EXCEPT !.pc = "market", !.price = p,
                           !.qty = tradeQuantity(tradeAmount, p)]
     \/ TradeStepFailed("getCurrentPrice")
  /\ UNCHANGED <<currentPosition, accountBalance, tradeAmount, cyc, mon, exPos, exOrders,
                 exLeverage, alerts, exBalance, calc, conc>>

\* TradeMarketReturn with a rejected market order logged and the sequence
\* carried on.
TradeMarketReturn_FailureContinues ==
  /\ ts.pc = "market"
  /\ \/ /\ ts.qty > 0
        /\ ts' = [ts EXCEPT
             !.pc = "stopLoss",
             !.placed = Append(@, TradeOrder("MARKET", ts.action, ts.qty, 0, FALSE))]
        /\ exPos' = IF ts.action = "BUY" THEN exPos + ts.qty ELSE exPos - ts.qty
     \/ /\ ts' = [ts EXCEPT !.pc = "stopLoss", !.err = "placeMarketOrder"]
        /\ UNCHANGED exPos
  /\ UNCHANGED <<currentPosition, accountBalance, tradeAmount, cyc, mon, exOrders,
                 exLeverage, alerts, exBalance, calc, conc>>

\* placeMarketOrder answers (the venue takes no order of quantity zero); the
\* protective prices are computed and placeStopLossOrder is awaited.
TradeMarketReturn ==
  /\ ts.pc = "market"
  /\ \/ /\ ts.qty > 0
        /\ ts' = [ts EXCEPT
             !.pc = "stopLoss",
             !.placed = Append(@, TradeOrder("MARKET", ts.action, ts.qty, 0, FALSE))]
        /\ exPos' = IF ts.action = "BUY" THEN exPos + ts.qty ELSE exPos - ts.qty
     \/ /\ TradeStepFailed("placeMarketOrder")
        /\ UNCHANGED exPos
  /\ UNCHANGED <<currentPosition, accountBalance, tradeAmount, cyc, mon, exOrders,
                 exLeverage, alerts, exBalance, calc, conc>>

\* placeStopLossOrder answers; placeTakeProfitOrder is awaited.
TradeStopLossReturn ==
  /\ ts.pc = "stopLoss"
  /\ \/ /\ ReduceOnlyAccepted(ProtectiveSide(ts.action))
        /\ LET o == TradeOrder("STOP_MARKET", ProtectiveSide(ts.action), ts.qty,
                               calculateStopLossPrice(ts.price, ts.action, StopLossPoints),
                               TRUE) IN
           /\ exOrders' = exOrders \cup {o}
           /\ ts' = [ts EXCEPT !.pc = "takeProfit", !.placed = Append(@, o)]
     \/ /\ TradeStepFailed("placeStopLossOrder")
        /\ UNCHANGED exOrders
  /\ UNCHANGED <<currentPosition, accountBalance, tradeAmount, cyc, mon, exPos,
                 exLeverage, alerts, exBalance, calc, conc>>

\* TradeTakeProfitReturn with the call returning once the orders are placed,
\* no trade alert sent.
TradeTakeProfitReturn_NoAlert ==
  /\ ts.pc = "takeProfit"
  /\ \/ /\ ReduceOnlyAccepted(ProtectiveSide(ts.action))
        /\ LET o == TradeOrder("TAKE_PROFIT_MARKET", ProtectiveSide(ts.action), ts.qty,
                               calculateTakeProfitPrice(ts.price, ts.action, TakeProfitPoints),
                               TRUE) IN
           /\ exOrders' = exOrders \cup {o}
           /\ ts' = [ts EXCEPT !.pc = "done", !.res = "resolved", !.placed = Append(@, o)]
     \/ /\ TradeStepFailed("placeTakeProfitOrder")
        /\ UNCHANGED exOrders
  /\ UNCHANGED <<currentPosition, accountBalance, tradeAmount, cyc, mon, exPos,
                 exLeverage, alerts, exBalance, calc, conc>>

\* placeTakeProfitOrder answers; sendTradeAlert is awaited.
TradeTakeProfitReturn ==
  /\ ts.pc = "takeProfit"
  /\ \/ /\ ReduceOnlyAccepted(ProtectiveSide(ts.action))
        /\ LET o == TradeOrder("TAKE_PROFIT_MARKET", ProtectiveSide(ts.action), ts.qty,
                               calculateTakeProfitPrice(ts.price, ts.action, TakeProfitPoints),
                               TRUE) IN
           /\ exOrders' = exOrders \cup {o}
           /\ ts' = [ts EXCEPT !.pc = "tradeAlert", !.placed = Append(@, o)]
     \/ /\ TradeStepFailed("placeTakeProfitOrder")
        /\ UNCHANGED exOrders
  /\ UNCHANGED <<currentPosition, accountBalance, tradeAmount, cyc, mon, exPos,
                 exLeverage, alerts, exBalance, calc, conc>>

\* The message a send delivers to the chat when sendMessage returns true.
Delivered(kind, sink) ==
  IF sendMessage(sink) THEN alerts \cup {[kind |-> kind, call |-> ts.n]} ELSE alerts

\* TradeAlertReturn with sendMessage throwing where it returns false: the
\* exception lands in executeTradeSignal's catch.
TradeAlertReturn_SinkFailureThrows ==
  /\ ts.pc = "tradeAlert"
  /\ \E sink \in SinkStates :
       /\ ts' = IF sendMessage(sink)
                  THEN [ts EXCEPT !.pc = "done", !.res = "resolved", !.sink = sink]
                  ELSE [ts EXCEPT !.pc = "errorAlert", !.err = "sendTradeAlert"]
       /\ alerts' = Delivered("trade", sink)
  /\ UNCHANGED <<currentPosition, accountBalance, tradeAmount, cyc, mon, exPos, exOrders,
                 exLeverage, exBalance, calc, conc>>

\* sendTradeAlert resolves (to true or false) and executeTradeSignal
\* resolves.
TradeAlertReturn ==
  /\ ts.pc = "tradeAlert"
  /\ \E sink \in SinkStates :
       /\ ts' = [ts EXCEPT !.pc = "done", !.res = "resolved", !.sink = sink]
       /\ alerts' = Delivered("trade", sink)
  /\ UNCHANGED <<currentPosition, accountBalance, tradeAmount, cyc, mon, exPos, exOrders,
                 exLeverage, exBalance, calc, conc>>

\* sendErrorAlert resolves (to true or false) and the catch rethrows the
\* error it caught.
ErrorAlertReturn ==
  /\ ts.pc = "errorAlert"
  /\ \E sink \in SinkStates :
       /\ ts' = [ts EXCEPT !.pc = "done", !.res = "rejected", !.thrown = ts.err,
                           !.sink = sink]
       /\ alerts' = Delivered("error", sink)
  /\ UNCHANGED <<currentPosition, accountBalance, tradeAmount, cyc, mon, exPos, exOrders,
                 exLeverage, exBalance, calc, conc>>

NextTrade ==
  \/ ExecuteTradeSignal
  \/ TradePositionsReturn
  \/ TradeCloseReturn
  \/ TradeCancelReturn
  \/ TradeWaitReturn
  \/ TradePriceReturn
  \/ TradeMarketReturn
  \/ TradeStopLossReturn
  \/ TradeTakeProfitReturn
  \/ TradeAlertReturn
  \/ ErrorAlertReturn

SpecTrade == Init /\ [][NextTrade]_vars

----------------------------------------------------------------------------
(* Two executeTradeSignal calls running together, one per symbol *)

\* What getCurrentPrice may return for a symbol.
SymbolPrices(s) == IF s = "BTCUSDT" THEN {42000} ELSE {2500}

\* An order left resting for a symbol by an earlier call.
StaleOrder(s) ==
  [symbol |-> s, type |-> "STOP_MARKET", side |-> "SELL", qty |-> 30, stop |-> 1,
   reduceOnly |-> TRUE, by |-> "earlier"]

\* What the venue may hold for a symbol when the calls start: nothing, or
\* the position and a protective order of an earlier call.
PriorBooks(s) == {EmptyBook, [pos |-> 30, resting |-> {StaleOrder(s)}, log |-> <<>>]}

InitConcurrent ==
  /\ currentPosition = NoPosition
  /\ accountBalance = 0
  /\ tradeAmount \in TradeAmounts
  /\ cyc = [c \in Cycles |-> IdleCycle]
  /\ mon = [m \in Ticks |-> IdleTick]
  /\ exPos = 0
  /\ exOrders = {}
  /\ exLeverage = ConfigLeverage
  /\ alerts = {}
  /\ exBalance \in WalletBalances
  /\ calc = NoCalc
  /\ ts = IdleCall
  /\ \E b \in [Symbols -> UNION {PriorBooks(s) : s \in Symbols}] :
       /\ \A s \in Symbols : b[s] \in PriorBooks(s)
       /\ conc = [call |-> [s \in Symbols |-> IdleSymbolCall], book |-> b]

\* An order the call for symbol s had the venue accept: every submitNewOrder
\* of the call carries signal.symbol.
SymbolOrder(s, type, side, qty, stop, reduceOnly) ==
  [symbol |-> s, type |-> type, side |-> side, qty |-> qty, stop |-> stop,
   reduceOnly |-> reduceOnly, by |-> s]

\* The venue accepts a reduce-only order on `side` for symbol s.
SymbolReduceOnlyAccepted(s, side) ==
  \/ side = "SELL" /\ conc.book[s].pos > 0
  \/ side = "BUY" /\ conc.book[s].pos < 0

\* The call for s is suspended at await `pc`.
At(s, pc) == conc.call[s].pc = pc

\* tradingService.executeTradeSignal(signal) is called for symbol s and runs
\* to its first await (getPositions inside closeAllPositions).
ConcurrentSignal(s) ==
  /\ At(s, "idle")
  /\ \E a \in {"BUY", "SELL"} :
       conc' = [conc EXCEPT
         !.call[s].pc = "positions", !.call[s].action = a,
         !.call[s].beside = conc.call[CHOOSE x \in Symbols : x # s].pc]
  /\ UNCHANGED <<currentPosition, accountBalance, tradeAmount, cyc, mon, exPos, exOrders,
                 exLeverage, alerts, exBalance, calc, ts>>

\* An awaited exchange call of the call for s rejected (the catch of
\* executeTradeSignal awaits sendErrorAlert).
SymbolStepFailed(s, step) ==
  conc' = [conc EXCEPT !.call[s].pc = "errorAlert", !.call[s].err = step]

\* closeAllPositions(symbol): getPositions answers with the positions of
\* every symbol and those of `symbol` are kept.
SymbolPositionsReturn(s) ==
  /\ At(s, "positions")
  /\ \/ conc' = [conc EXCEPT
          !.call[s].pc = IF conc.book[s].pos # 0 THEN "close" ELSE "cancel"]
     \/ SymbolStepFailed(s, "closeAllPositions")
  /\ UNCHANGED <<currentPosition, accountBalance, tradeAmount, cyc, mon, exPos, exOrders,
                 exLeverage, alerts, exBalance, calc, ts>>

\* closeAllPositions(symbol): the reduce-only market order answers.
SymbolCloseReturn(s) ==
  /\ At(s, "close")
  /\ \/ /\ conc.book[s].pos # 0
        /\ conc' = [conc EXCEPT
             !.call[s].pc = "cancel",
             !.book[s].pos = 0,
             !.book[s].log = Append(@,
               SymbolOrder(s, "MARKET", IF conc.book[s].pos > 0 THEN "SELL" ELSE "BUY",
                           Abs(conc.book[s].pos), 0, TRUE))]
     \/ SymbolStepFailed(s, "closeAllPositions")
  /\ UNCHANGED <<currentPosition, accountBalance, tradeAmount, cyc, mon, exPos, exOrders,
                 exLeverage, alerts, exBalance, calc, ts>>

\* SymbolCancelReturn with getAllOrders and cancelOrder not restricted to
\* the signal's symbol: resting orders of any symbol are cancelled.
SymbolCancelReturn_EverySymbol(s) ==
  /\ At(s, "cancel")
  /\ \/ \E S \in [Symbols -> SUBSET UNION {conc.book[x].resting : x \in Symbols}] :
          /\ \A x \in Symbols : S[x] \subseteq conc.book[x].resting
          /\ conc' = [conc EXCEPT
               !.call[s].pc = "wait",
               !.book = [x \in Symbols |->
                           [conc.book[x] EXCEPT !.resting = @ \ S[x]]]]
     \/ SymbolStepFailed(s, "cancelAllOrders")
  /\ UNCHANGED <<currentPosition, accountBalance, tradeAmount, cyc, mon, exPos, exOrders,
                 exLeverage, alerts, exBalance, calc, ts>>

\* cancelAllOrders(symbol): getAllOrders({ symbol }) answers and the active
\* orders of the symbol are cancelled in turn (a rejected cancelOrder is
\* skipped); the one-second wait follows.
SymbolCancelReturn(s) ==
  /\ At(s, "cancel")
  /\ \/ \E S \in SUBSET conc.book[s].resting :
          conc' = [conc EXCEPT !.call[s].pc = "wait", !.book[s].resting = @ \ S]
     \/ SymbolStepFailed(s, "cancelAllOrders")
  /\ UNCHANGED <<currentPosition, accountBalance, tradeAmount, cyc, mon, exPos, exOrders,
                 exLeverage, alerts, exBalance, calc, ts>>

\* The setTimeout of 1000 ms fires; getCurrentPrice(symbol) is awaited.
SymbolWaitReturn(s) ==
  /\ At(s, "wait")
  /\ conc' = [conc EXCEPT !.call[s].pc = "price"]
  /\ UNCHANGED <<currentPosition, accountBalance, tradeAmount, cyc, mon, exPos, exOrders,
                 exLeverage, alerts, exBalance, calc, ts>>

\* getCurrentPrice(symbol) answers; the quantity is computed and the market
\* order submitted.
SymbolPriceReturn(s) ==
  /\ At(s, "price")
  /\ \/ \E p \in SymbolPrices(s) :
          conc' = [conc EXCEPT !.call[s].pc = "market", !.call[s].price = p,
                               !.call[s].qty = tradeQuantity(tradeAmount, p)]
     \/ SymbolStepFailed(s, "getCurrentPrice")
  /\ UNCHANGED <<currentPosition, accountBalance, tradeAmount, cyc, mon, exPos, exOrders,
                 exLeverage, alerts, exBalance, calc, ts>>

\* placeMarketOrder answers for the symbol.
SymbolMarketReturn(s) ==
  /\ At(s, "market")
  /\ LET k == conc.call[s] IN
     \/ /\ k.qty > 0
        /\ conc' = [conc EXCEPT
             !.call[s].pc = "stopLoss",
             !.book[s].pos = IF k.action = "BUY" THEN @ + k.qty ELSE @ - k.qty,
             !.book[s].log = Append(@, SymbolOrder(s, "MARKET", k.action, k.qty, 0, FALSE))]
     \/ SymbolStepFailed(s, "placeMarketOrder")
  /\ UNCHANGED <<currentPosition, accountBalance, tradeAmount, cyc, mon, exPos, exOrders,
                 exLeverage, alerts, exBalance, calc, ts>>

\* The protective order of the call for s.
SymbolBracket(s, type) ==
  LET k == conc.call[s] IN
  SymbolOrder(s, type, ProtectiveSide(k.action), k.qty,
              IF type = "STOP_MARKET"
                THEN calculateStopLossPrice(k.price, k.action, StopLossPoints)
                ELSE calculateTakeProfitPrice(k.price, k.action, TakeProfitPoints),
              TRUE)

\* placeStopLossOrder answers for the symbol.
SymbolStopLossReturn(s) ==
  /\ At(s, "stopLoss")
  /\ \/ /\ SymbolReduceOnlyAccepted(s, ProtectiveSide(conc.call[s].action))
        /\ conc' = [conc EXCEPT
             !.call[s].pc = "takeProfit",
             !.book[s].resting = @ \cup {SymbolBracket(s, "STOP_MARKET")},
             !.book[s].log = Append(@, SymbolBracket(s, "STOP_MARKET"))]
     \/ SymbolStepFailed(s, "placeStopLossOrder")
  /\ UNCHANGED <<currentPosition, accountBalance, tradeAmount, cyc, mon, exPos, exOrders,
                 exLeverage, alerts, exBalance, calc, ts>>

\* placeTakeProfitOrder answers for the symbol; sendTradeAlert is awaited.
SymbolTakeProfitReturn(s) ==
  /\ At(s, "takeProfit")
  /\ \/ /\ SymbolReduceOnlyAccepted(s, ProtectiveSide(conc.call[s].action))
        /\ conc' = [conc EXCEPT
             !.call[s].pc = "tradeAlert",
             !.book[s].resting = @ \cup {SymbolBracket(s, "TAKE_PROFIT_MARKET")},
             !.book[s].log = Append(@, SymbolBracket(s, "TAKE_PROFIT_MARKET"))]
     \/ SymbolStepFailed(s, "placeTakeProfitOrder")
  /\ UNCHANGED <<currentPosition, accountBalance, tradeAmount, cyc, mon, exPos, exOrders,
                 exLeverage, alerts, exBalance, calc, ts>>

\* sendTradeAlert resolves (to true or false) and the call for s resolves.
SymbolTradeAlertReturn(s) ==
  /\ At(s, "tradeAlert")
  /\ conc' = [conc EXCEPT !.call[s].pc = "done", !.call[s].res = "resolved"]
  /\ \E sink \in SinkStates :
       alerts' = IF sendMessage(sink) THEN alerts \cup {[kind |-> "trade", symbol |-> s]}
                 ELSE alerts
  /\ UNCHANGED <<currentPosition, accountBalance, tradeAmount, cyc, mon, exPos, exOrders,
                 exLeverage, exBalance, calc, ts>>

\* sendErrorAlert resolves and the catch rethrows: the call for s rejects.
SymbolErrorAlertReturn(s) ==
  /\ At(s, "errorAlert")
  /\ conc' = [conc EXCEPT !.call[s].pc = "done", !.call[s].res = "rejected"]
  /\ \E sink \in SinkStates :
       alerts' = IF sendMessage(sink) THEN alerts \cup {[kind |-> "error", symbol |-> s]}
                 ELSE alerts
  /\ UNCHANGED <<currentPosition, accountBalance, tradeAmount, cyc, mon, exPos, exOrders,
                 exLeverage, exBalance, calc, ts>>

\* One step of the call for symbol s.
SymbolStep(s) ==
  \/ SymbolPositionsReturn(s)
  \/ SymbolCloseReturn(s)
  \/ SymbolCancelReturn(s)
  \/ SymbolWaitReturn(s)
  \/ SymbolPriceReturn(s)
  \/ SymbolMarketReturn(s)
  \/ SymbolStopLossReturn(s)
  \/ SymbolTakeProfitReturn(s)
  \/ SymbolTradeAlertReturn(s)
  \/ SymbolErrorAlertReturn(s)

NextConcurrent ==
  \/ \E s \in Symbols : ConcurrentSignal(s)
  \/ \E s \in Symbols : SymbolPositionsReturn(s)
  \/ \E s \in Symbols : SymbolCloseReturn(s)
  \/ \E s \in Symbols : SymbolCancelReturn(s)
  \/ \E s \in Symbols : SymbolWaitReturn(s)
  \/ \E s \in Symbols : SymbolPriceReturn(s)
  \/ \E s \in Symbols : SymbolMarketReturn(s)
  \/ \E s \in Symbols : SymbolStopLossReturn(s)
  \/ \E s \in Symbols : SymbolTakeProfitReturn(s)
  \/ \E s \in Symbols : SymbolTradeAlertReturn(s)
  \/ \E s \in Symbols : SymbolErrorAlertReturn(s)

SpecConcurrent == InitConcurrent /\ [][NextConcurrent]_vars

----------------------------------------------------------------------------
(* Properties *)

\* An invocation is in flight from its trigger until it returns.
InFlight(c) == cyc[c].pc \notin {"idle", "done"}
TickInFlight(m) == mon[m].pc \notin {"idle", "done"}

\* The entry market order of c was filled and c has not returned yet.
Entered(c) == cyc[c].pc \in {"takeProfit", "stopLoss"}

\* The tick ran the closure branch (P&L, balance update, cancelAllOrders).
ClosureProcessed(m) ==
  mon[m].pc = "cancel" \/ mon[m].res \in {"closed", "cancelFailed"}

\* C1: of two executeStrategy invocations that overlap, the second is
\* rejected and only one entry market order is submitted: no two invocations
\* are in flight with their entry orders filled.
C1_OverlappingTriggersEnterOnce ==
  \A c1, c2 \in Cycles : c1 # c2 => ~(Entered(c1) /\ Entered(c2))

\* C2: once the entry is filled and a protective order failed, the
\* invocation either is submitting a compensating flatten or has sent a
\* critical alert to the sink.
C2_BracketFailureEscalated ==
  \A c \in Cycles :
    cyc[c].res = "bracketFailed" =>
      \/ cyc[c].pc = "closeOrder"
      \/ \E a \in alerts : a.kind = "critical" /\ a.cid = c

\* C3: a monitor tick and an entry cycle never interleave: no tick is in
\* flight while a cycle is in flight.
C3_TickAndCycleSerialized ==
  \A c \in Cycles, m \in Ticks : ~(InFlight(c) /\ TickInFlight(m))

\* C4: while a Position is tracked no invocation has a flatten order or an
\* entry order submitted.
C4_NoEntrySequenceWhileOpen ==
  currentPosition # NoPosition =>
    \A c \in Cycles : cyc[c].pc \notin {"closeOrder", "entry"}

\* C5: a tick whose position query fails ends there, leaving the tracked
\* Position, the cached balance and the venue's position and orders as they
\* were; and a tick that starts while a Position is tracked queries the
\* venue.
C5_QueryFailureIsNotClosure ==
  [][\A m \in Ticks :
       /\ (mon[m].pc = "query" /\ mon'[m].res = "queryFailed") =>
            /\ mon'[m].pc = "done"
            /\ UNCHANGED <<currentPosition, accountBalance, exPos, exOrders>>
       /\ mon'[m].res = "queryFailed" => mon'[m].pc = "done"
       /\ (mon[m].pc = "idle" /\ mon'[m].pc # "idle" /\ currentPosition # NoPosition) =>
            mon'[m].pc = "query"]_vars

\* C5's case: the first tick's query failed, the Position is still tracked
\* with its protective orders resting, and the next tick is querying.
C5_Witness ==
  /\ mon[1].res = "queryFailed"
  /\ mon[2].pc = "query"
  /\ currentPosition # NoPosition
  /\ Cardinality(exOrders) = 2

\* C6: each recorded Position is cleared by one tick only: no more ticks
\* run the closure branch than Positions were recorded.
C6_ClosureProcessedOnce ==
  Cardinality({m \in Ticks : ClosureProcessed(m)})
    <= Cardinality({c \in Cycles : cyc[c].res = "open"})

\* C7: an invocation whose flatten step failed is aborted: it submits no
\* leverage change, no entry order and no protective order.
C7_FlattenFailureAborts ==
  \A c \in Cycles :
    cyc[c].flat = "failed" =>
      /\ cyc[c].pc \notin {"leverage", "entry", "takeProfit", "stopLoss"}
      /\ cyc[c].res \notin {"leverageFailed", "entryFailed", "bracketFailed", "open"}

\* C8: a market order in flight has a positive quantity.
C8_NoOrderForZeroQuantity ==
  \A c \in Cycles : cyc[c].pc = "entry" => cyc[c].qty > 0

\* A step in which tick m runs the closure branch's clearing of the
\* Position.
ClosureStep(m) == mon[m].pc = "balance" /\ mon'[m].pc = "cancel"

\* A step in which invocation c completes closeAllPositions.
FlattenStep(c) == cyc[c].pc = "cancel" /\ cyc'[c].pc = "settle"

----------------------------------------------------------------------------
\* The awaits of one executeStrategy invocation, in the order of the code.
AwaitOrder ==
  <<"idle", "balance", "closeQuery", "closeOrder", "cancel", "settle", "signal",
    "leverage", "entry", "takeProfit", "stopLoss", "done">>

Rank(pc) == CHOOSE i \in 1..Len(AwaitOrder) : AwaitOrder[i] = pc

\* C11: an invocation goes through its calls one at a time and in the order
\* flatten, sizing, entry, protective orders, record; and it issues a next
\* call only when the calls before it returned successfully, so never after
\* its flatten step failed.
C11_SequentialAfterSuccess ==
  [][\A c \in Cycles :
       cyc'[c].pc # cyc[c].pc =>
         /\ Rank(cyc'[c].pc) > Rank(cyc[c].pc)
         /\ cyc'[c].pc # "done" => cyc'[c].flat # "failed"]_vars

\* C12: when the entry market order fails the invocation ends at once: the
\* failure leaves the tracked Position and the venue's position and orders
\* as they were, the invocation does nothing afterwards, none of its
\* protective orders ever rests at the venue, and with no other invocation
\* around the tracked Position is none after a completed flatten.
C12_EntryFailureAborts ==
  [][\A c \in Cycles :
       /\ (cyc[c].pc = "entry" /\ cyc'[c].res = "entryFailed") =>
            /\ cyc'[c].pc = "done"
            /\ UNCHANGED <<currentPosition, exPos, exOrders>>
       /\ cyc[c].res = "entryFailed" => cyc'[c] = cyc[c]
       /\ cyc'[c].res = "entryFailed" =>
            /\ \A o \in exOrders' : o.cid # c
            /\ (cyc'[c].flat = "ok" /\ \A c2 \in Cycles \ {c} : cyc'[c2].pc = "idle") =>
                 currentPosition' = NoPosition]_vars

\* C12's case: the venue rejected an entry order of positive quantity; no
\* Position is tracked, no position is open and no order rests.
C12_Witness ==
  /\ cyc[1].res = "entryFailed" /\ cyc[1].qty > 0 /\ cyc[1].flat = "ok"
  /\ cyc[2].pc = "idle"
  /\ currentPosition = NoPosition /\ exPos = 0 /\ exOrders = {}

\* C13: the trigger price of every resting protective order is computed
\* from the fill price of its invocation's entry order.
C13_BracketsFromFillPrice ==
  \A o \in exOrders :
    o.stop = IF o.type = "TAKE_PROFIT_MARKET"
               THEN takeProfitPrice(cyc[o.cid].sig.action, cyc[o.cid].fill)
               ELSE stopLossPrice(cyc[o.cid].sig.action, cyc[o.cid].fill)

\* C14: every protective order is reduce-only, has the quantity of its
\* invocation's entry order, is a SELL for a LONG entry and a BUY for a SHORT
\* one, and triggers at the entry price the invocation records minus the
\* stop-loss points (stop) or plus the take-profit points (target) for a LONG
\* entry, and with the signs reversed for a SHORT one; the recorded Position
\* carries the same prices.
C14_BracketOrdersShape ==
  /\ \A o \in exOrders :
       LET a == cyc[o.cid].sig.action
           e == cyc[o.cid].sig.data.currentPrice
       IN /\ o.reduceOnly
          /\ o.qty = cyc[o.cid].qty
          /\ o.type \in {"TAKE_PROFIT_MARKET", "STOP_MARKET"}
          /\ a \in {"LONG", "SHORT"}
          /\ a = "LONG" =>
               /\ o.side = "SELL"
               /\ o.type = "STOP_MARKET" => o.stop = e - StopLossPoints
               /\ o.type = "TAKE_PROFIT_MARKET" => o.stop = e + TakeProfitPoints
          /\ a = "SHORT" =>
               /\ o.side = "BUY"
               /\ o.type = "STOP_MARKET" => o.stop = e + StopLossPoints
               /\ o.type = "TAKE_PROFIT_MARKET" => o.stop = e - TakeProfitPoints
  /\ currentPosition # NoPosition =>
       LET q == currentPosition IN
       IF q.side = "LONG"
         THEN /\ q.stopLossPrice = q.entryPrice - StopLossPoints
              /\ q.takeProfitPrice = q.entryPrice + TakeProfitPoints
         ELSE /\ q.stopLossPrice = q.entryPrice + StopLossPoints
              /\ q.takeProfitPrice = q.entryPrice - TakeProfitPoints

\* C14's case: a SHORT entry is recorded with both its protective orders
\* resting, the stop above the target.
C14_Witness ==
  /\ currentPosition # NoPosition /\ currentPosition.side = "SHORT"
  /\ exPos < 0
  /\ \E o1, o2 \in exOrders :
       /\ o1.type = "STOP_MARKET" /\ o2.type = "TAKE_PROFIT_MARKET"
       /\ o1.cid = o2.cid /\ o1.side = "BUY" /\ o2.side = "BUY"
       /\ o1.stop > o2.stop

----------------------------------------------------------------------------
\* A signal evaluation is recorded.
SignalCalc == calc.fn = "generateTradingSignal"

\* The snapshot of a feed of positive prices.
SoundFeed(d) == d.currentPrice > 0 /\ d.ema7 > 0 /\ d.ema100 > 0 /\ d.ema200 > 0

\* price within 0.3% of fastTrend.
WithinPrecision(d) == 1000 * Abs(d.currentPrice - d.ema7) <= 3 * d.ema7

LongCase(d) ==
  /\ d.currentPrice > d.ema7 /\ d.ema7 > d.ema100 /\ d.ema100 > d.ema200
  /\ WithinPrecision(d)
  /\ d.rsi >= 30 /\ d.rsi <= 50

ShortCase(d) ==
  /\ d.currentPrice < d.ema7 /\ d.ema7 < d.ema100 /\ d.ema100 < d.ema200
  /\ WithinPrecision(d)
  /\ d.rsi >= 50 /\ d.rsi <= 70

C17_LeverageTiers ==
  (SignalCalc /\ calc.out.action \in {"LONG", "SHORT"}) =>
    /\ calc.out.leverage =
         IF \/ calc.out.action = "LONG" /\ calc.d.rsi < 35
            \/ calc.out.action = "SHORT" /\ calc.d.rsi > 65
           THEN HighLeverage ELSE BaseLeverage
    /\ (calc.out.action = "LONG" /\ calc.d.rsi = 34) => calc.out.leverage = HighLeverage
    /\ (calc.out.action = "LONG" /\ calc.d.rsi = 45) => calc.out.leverage = BaseLeverage
    /\ HighLeverage > BaseLeverage

\* C17's case: a LONG signal at momentum exactly 35 has the base tier.
C17_Witness ==
  /\ SignalCalc
  /\ calc.out.action = "LONG" /\ calc.d.rsi = 35
  /\ calc.out.leverage = BaseLeverage

\* C18: a snapshot whose price is zero or negative, or whose fast trend is
\* zero, resolves to NO_SIGNAL.
C18_AnomalyResolvesToNoSignal ==
  (SignalCalc /\ (calc.d.currentPrice <= 0 \/ calc.d.ema7 = 0)) =>
    calc.out.action = "NO_SIGNAL"

\* C19: the quantity is balance * 0.95 * leverage / price rounded down to
\* the increment 0.001: in thousandths, out <= the unrounded quantity <
\* out + 1.
C19_RoundedDownToIncrement ==
  calc.fn = "roundQuantity" =>
    /\ calc.out * 100 * calc.price <= calc.balance * 95 * calc.leverage * 1000
    /\ calc.balance * 95 * calc.leverage * 1000 < (calc.out + 1) * 100 * calc.price

\* C20: the tick that detects the closure reports the venue's wallet
\* balance minus the balance cached at entry as P&L, and caches the venue's
\* wallet balance.
C20_PnlIsBalanceDelta ==
  [][\A m \in Ticks :
       ClosureStep(m) =>
         /\ mon'[m].pnl = exBalance - accountBalance
         /\ accountBalance' = exBalance]_vars

----------------------------------------------------------------------------
----------------------------------------------------------------------------
\* C22: every invocation of the strategy that an exchange rejection aborted
\* (leverage, entry or protective order), and every closure a tick detected,
\* has put a notification into the sink by the time it returned.
C22_AbortsAndClosuresNotified ==
  /\ \A c \in Cycles :
       cyc[c].res \in {"leverageFailed", "entryFailed", "bracketFailed"} =>
         \E a \in alerts : a.kind = "abort" /\ a.call = c
  /\ \A m \in Ticks :
       mon[m].res \in {"closed", "cancelFailed"} =>
         \E a \in alerts : a.kind = "closure" /\ a.call = m

----------------------------------------------------------------------------
\* How an executeStrategy invocation may have returned to the cron callback.
CycleOutcomes == {"noSignal", "open", "leverageFailed", "entryFailed", "bracketFailed"}
\* How a monitorPosition invocation may have returned to the cron callback.
TickOutcomes == {"skipped", "refreshed", "closed", "queryFailed", "typeError", "cancelFailed"}

\* C23: whatever the exchange answers, executeStrategy and monitorPosition
\* never raise to the scheduler: an invocation is at one of its awaits or it
\* returned with one of its outcomes, failed flattens and failed calls
\* included; and the next trigger or tick is accepted after any of them.
C23_FailuresNeverRaise ==
  /\ \A c \in Cycles :
       /\ cyc[c].pc \in {AwaitOrder[i] : i \in 1..Len(AwaitOrder)}
       /\ cyc[c].pc = "done" <=> cyc[c].res \in CycleOutcomes
       /\ (c < MaxCycles /\ cyc[c].pc # "idle" /\ cyc[c + 1].pc = "idle")
            => ENABLED Trigger(c + 1)
  /\ \A m \in Ticks :
       /\ mon[m].pc \in {"idle", "query", "balance", "cancel", "done"}
       /\ mon[m].pc = "done" <=> mon[m].res \in TickOutcomes
       /\ (m < MaxTicks /\ mon[m].pc # "idle" /\ mon[m + 1].pc = "idle")
            => ENABLED Tick(m + 1)

\* An entry was rejected and a query failed, and the trigger and the tick
\* after them went through to an open, refreshed position.
C23_Witness ==
  /\ cyc[1].res = "entryFailed" /\ cyc[1].flat = "ok"
  /\ cyc[2].res = "open"
  /\ mon[1].res = "queryFailed"
  /\ mon[2].res = "refreshed"

----------------------------------------------------------------------------
\* C24: a tick whose query finds a nonzero position at the venue while a
\* Position is tracked only refreshes: of the tracked Position nothing but
\* unrealizedPnl changes, the cached balance is kept, and no order is
\* submitted or cancelled (the venue is left as it was).
C24_RefreshOnlyUpdatesPnl ==
  [][\A m \in Ticks :
       (mon[m].pc = "query" /\ mon'[m].res = "refreshed") =>
         /\ exPos # 0 /\ currentPosition # NoPosition
         /\ currentPosition' =
              [currentPosition EXCEPT !.unrealizedPnl = currentPosition'.unrealizedPnl]
         /\ currentPosition'.unrealizedPnl \in UnrealizedPnls
         /\ UNCHANGED <<accountBalance, exOrders, exPos, exLeverage, exBalance, cyc>>
         /\ mon'[m].pc = "done"]_vars

\* A tick refreshed the tracked position while both protective orders rest.
C24_Witness ==
  /\ \E m \in Ticks : mon[m].res = "refreshed"
  /\ currentPosition # NoPosition /\ currentPosition.unrealizedPnl \in UnrealizedPnls
  /\ Cardinality(exOrders) = 2 /\ exPos # 0

----------------------------------------------------------------------------
\* C25: after a start of the process the first tick reconciles with the
\* venue: once it returned, and before any strategy invocation, a position
\* the venue still holds is tracked (or was closed).
C25_FirstTickReconciles ==
  (mon[1].pc = "done" /\ \A c \in Cycles : cyc[c].pc = "idle") =>
    (exPos = 0 \/ currentPosition # NoPosition)

----------------------------------------------------------------------------
\* C26: the confidence of every LONG or SHORT signal lies in [0, 100] (in
\* tenths, 0..1000), and whether executeStrategy goes on to executeTrade
\* depends on the action alone: for any confidence a LONG or SHORT signal
\* trades and a NO_SIGNAL does not.
C26_ConfidenceBoundedAndInert ==
  /\ (SignalCalc /\ calc.out.action \in {"LONG", "SHORT"}) =>
       (calc.out.confidence >= 0 /\ calc.out.confidence <= 1000)
  /\ calc.fn = "executeStrategy" =>
       (calc.trades <=> calc.signal.action \in {"LONG", "SHORT"})

\* A LONG signal over a negative slow trend, whose sum is far below zero and
\* is clamped to 0.
C26_Witness ==
  /\ SignalCalc
  /\ calc.out.action = "LONG" /\ calc.d.ema200 < 0
  /\ confidenceSum(calc.d, "LONG") < 0 /\ calc.out.confidence = 0

----------------------------------------------------------------------------
\* The order is not the reduce-only market order that closes a position.
IsEntryOrder(o) == ~(o.type = "MARKET" /\ o.reduceOnly)

\* The orders of the call that open and protect the new position.
EntryOrders == SelectSeq(ts.placed, IsEntryOrder)

\* They are the market order on the signal's side, then the stop and the
\* take-profit on the opposite side.
ThreeEntryOrders ==
  /\ Len(EntryOrders) = 3
  /\ EntryOrders[1].type = "MARKET" /\ EntryOrders[1].side = ts.action
  /\ EntryOrders[2].type = "STOP_MARKET"
  /\ EntryOrders[2].side = ProtectiveSide(ts.action)
  /\ EntryOrders[3].type = "TAKE_PROFIT_MARKET"
  /\ EntryOrders[3].side = ProtectiveSide(ts.action)

\* The call sent its alert (whatever became of it).
AlertSent == ts.sink # NoSend

----------------------------------------------------------------------------
\* C28: of a BUY at price P the stop order is placed at P - stopLossPoints
\* and the take-profit order at P + takeProfitPoints.
C28_BracketsAtPointDistance ==
  \A i \in 1..Len(ts.placed) :
    ts.action = "BUY" =>
      /\ ts.placed[i].type = "STOP_MARKET" =>
           ts.placed[i].stop = ts.price - StopLossPoints
      /\ ts.placed[i].type = "TAKE_PROFIT_MARKET" =>
           ts.placed[i].stop = ts.price + TakeProfitPoints

----------------------------------------------------------------------------
\* The entry orders a call has placed when the named exchange call rejects.
EntriesBefore(step) ==
  IF step = "placeStopLossOrder" THEN 1
  ELSE IF step = "placeTakeProfitOrder" THEN 2
  ELSE 0

----------------------------------------------------------------------------
\* C30: sendMessage resolves to false, and raises nothing, when the sink is
\* unconfigured, answers ok: false or cannot be reached; a call whose
\* exchange calls all succeeded resolves with its three entry orders placed
\* whatever became of its notification, and a call rejects only with the
\* error of an exchange call.
C30_SinkFailureContained ==
  /\ \A sink \in SinkStates :
       (~sink.configured \/ sink.response # "ok") => sendMessage(sink) = FALSE
  /\ (ts.pc = "done" /\ ts.err = "none") => (ts.res = "resolved" /\ ThreeEntryOrders)
  /\ ts.res = "rejected" =>
       ts.thrown \in {"closeAllPositions", "cancelAllOrders", "getCurrentPrice",
                      "placeMarketOrder", "placeStopLossOrder", "placeTakeProfitOrder"}
  /\ (AlertSent /\ ~sendMessage(ts.sink)) => \A a \in alerts : a.call # ts.n

\* A call resolved with its three orders while the sink could not be reached.
C30_Witness ==
  /\ ts.res = "resolved" /\ ThreeEntryOrders
  /\ ts.sink.configured /\ ts.sink.response = "networkError"
  /\ \A a \in alerts : a.call # ts.n

\* The orders the venue accepted for symbol s other than the reduce-only
\* market order closeAllPositions closes an earlier position with.
SymbolEntryOrders(s) == SelectSeq(conc.book[s].log, IsEntryOrder)

\* Symbol s has the three orders of its own call: the market order on the
\* signal's side, then the stop-loss and the take-profit, both resting, and
\* the position the market order opened.
OwnThreeOrders(s) ==
  LET k == conc.call[s]
      e == SymbolEntryOrders(s) IN
  /\ e = <<SymbolOrder(s, "MARKET", k.action, k.qty, 0, FALSE),
           SymbolBracket(s, "STOP_MARKET"), SymbolBracket(s, "TAKE_PROFIT_MARKET")>>
  /\ {SymbolBracket(s, "STOP_MARKET"), SymbolBracket(s, "TAKE_PROFIT_MARKET")}
       \subseteq conc.book[s].resting
  /\ conc.book[s].pos = IF k.action = "BUY" THEN k.qty ELSE -k.qty

C32_NoSignalHasLeverageOne ==
  (calc.fn = "generateTradingSignal" /\ ~isLongSignal(calc.d) /\ ~isShortSignal(calc.d))
    => (calc.out.action = "NO_SIGNAL" /\ calc.out.confidence = 0 /\ calc.out.leverage = 1)

\* The tracked position is the one invocation c recorded at the end of its
\* executeTrade: c went through the entry fill and both protective orders,
\* and the position's side, size, leverage and protective prices are those
\* of the orders c submitted.
RecordedBy(c) ==
  /\ cyc[c].res = "open"
  /\ cyc[c].qty > 0 /\ cyc[c].fill > 0
  /\ currentPosition.side = cyc[c].sig.action
  /\ EntrySide(currentPosition.side) = EntrySide(cyc[c].sig.action)
  /\ currentPosition.size = cyc[c].qty
  /\ currentPosition.size = BracketOrder(c, "STOP_MARKET").qty
  /\ currentPosition.leverage = cyc[c].sig.leverage
  /\ currentPosition.takeProfitPrice = BracketOrder(c, "TAKE_PROFIT_MARKET").stop
  /\ currentPosition.stopLossPrice = BracketOrder(c, "STOP_MARKET").stop

\* C33: a position is tracked only once executeTrade has had the entry
\* market order, the take-profit order and the stop-loss order accepted, and
\* it carries the side, size, leverage and protective prices submitted: no
\* position is tracked while its invocation is still before the end of
\* executeTrade or has failed.
C33_PositionRecordedAfterOrders ==
  /\ currentPosition # NoPosition => \E c \in Cycles : RecordedBy(c)
  /\ \A c \in Cycles :
       (InFlight(c) /\ \A c2 \in Cycles : cyc[c2].res # "open")
         => currentPosition = NoPosition

\* A position is tracked, recorded by an invocation whose two protective
\* orders rest at the venue against its filled entry.
C33_Witness ==
  /\ currentPosition # NoPosition
  /\ \E c \in Cycles :
       /\ RecordedBy(c)
       /\ {BracketOrder(c, "TAKE_PROFIT_MARKET"), BracketOrder(c, "STOP_MARKET")}
            \subseteq exOrders
       /\ exPos # 0

\* C34: whenever no executeStrategy invocation is in flight and no position
\* is tracked, the venue holds no position for the symbol (the venue starts
\* flat, so every position it holds was opened by the engine): there is no
\* untracked exposure.
C34_NoUntrackedExposure ==
  ((\A c \in Cycles : ~InFlight(c)) /\ currentPosition = NoPosition) => exPos = 0

\* C35: a monitorPosition invocation that started before an entry cycle
\* placed its orders never cancels that cycle's protective orders and never
\* clears the position that cycle recorded: no step of the first tick, which
\* was running before the second invocation began, takes a protective order
\* of the second invocation off the venue or sets its tracked position to
\* none while the venue still holds the position (the second invocation's
\* flatten having succeeded).
C35_EarlierTickSparesNewPosition ==
  [][ (mon'[1] # mon[1] /\ exPos # 0 /\ cyc[2].flat = "ok") =>
        /\ \A t \in {"TAKE_PROFIT_MARKET", "STOP_MARKET"} :
             BracketOrder(2, t) \in exOrders => BracketOrder(2, t) \in exOrders'
        /\ (cyc[2].res = "open" /\ currentPosition # NoPosition)
             => currentPosition' # NoPosition ]_vars

\* generateTradingSignal with isShortSignal asked before isLongSignal.
ShortFirstSignal(nCandles, d) ==
  IF nCandles < CandleLimit
    THEN [action |-> "NO_SIGNAL", leverage |-> BaseLeverage, confidence |-> 0,
          data |-> NeutralData]
  ELSE IF isShortSignal(d)
    THEN [action |-> "SHORT", leverage |-> determineLeverage(d.rsi, FALSE),
          confidence |-> calculateConfidence(d, "SHORT"), data |-> d]
  ELSE IF isLongSignal(d)
    THEN [action |-> "LONG", leverage |-> determineLeverage(d.rsi, TRUE),
          confidence |-> calculateConfidence(d, "LONG"), data |-> d]
  ELSE [action |-> "NO_SIGNAL", leverage |-> BaseLeverage, confidence |-> 0, data |-> d]

\* C36: no snapshot satisfies both the LONG and the SHORT conditions, the
\* momentum 50 that lies in both bands included, and the signal is the same
\* whichever of the two is evaluated first.
C36_LongAndShortExclusive ==
  calc.fn = "generateTradingSignal" =>
    /\ ~(isLongSignal(calc.d) /\ isShortSignal(calc.d))
    /\ calc.out = ShortFirstSignal(calc.n, calc.d)

\* A signal at momentum exactly 50 on an aligned snapshot: LONG.
C36_Witness ==
  /\ calc.fn = "generateTradingSignal"
  /\ calc.d.rsi = 50
  /\ calc.out.action = "LONG"
  /\ ~(calc.d.rsi < 50 \/ calc.d.rsi > 70)

\* updateAccountBalance has run at least once.
Refreshed == \E c \in Cycles : cyc[c].pc \notin {"idle", "balance"}

C38_LeverageSetBeforeEntry ==
  [][ \A c \in Cycles :
        /\ (cyc'[c].pc = "entry" /\ cyc[c].pc # "entry") =>
             /\ cyc[c].pc = "leverage"
             /\ exLeverage' = cyc[c].sig.leverage
             /\ cyc'[c].qty = roundQuantity(accountBalance, cyc[c].sig.leverage,
                                            cyc[c].sig.data.currentPrice)
             /\ UNCHANGED <<exPos, exOrders, currentPosition>>
        /\ (cyc[c].pc = "entry" /\ cyc'[c].pc = "takeProfit") =>
             Abs(exPos' - exPos) = cyc[c].qty
        /\ (cyc[c].pc = "leverage" /\ cyc'[c].pc \notin {"leverage", "entry"}) =>
             /\ cyc'[c].pc = "done" /\ cyc'[c].res = "leverageFailed"
             /\ UNCHANGED <<exPos, exOrders, currentPosition, exLeverage>>
        /\ cyc[c].res = "leverageFailed" => cyc'[c] = cyc[c] ]_vars

\* One invocation ended on a rejected setLeverage with the venue flat and
\* nothing tracked; the next one has set the leverage of its signal and
\* sized its market order with it.
C38_Witness ==
  /\ cyc[1].res = "leverageFailed" /\ cyc[1].qty = 0 /\ cyc[1].fill = 0
  /\ exPos = 0 /\ exOrders = {} /\ currentPosition = NoPosition
  /\ cyc[2].pc = "entry" /\ cyc[2].qty > 0
  /\ exLeverage = cyc[2].sig.leverage
  /\ exLeverage # ConfigLeverage

====
